---- MODULE Spec2Model ----
(***************************************************************************)
(* Model of the three command-line clients of the cookie refresh service:  *)
(*   interactive_refresh.py  the menu-driven tool        (script "cli")    *)
(*   quick_refresh.py        the simplified single loop  (script "quick")  *)
(*   refresh_example.py      the scripted demo runner    (script "demo")   *)
(*                                                                         *)
(* Text is modelled as a sequence of one-character strings, so that        *)
(* startswith, slicing and urlparse are computed character by character.   *)
(* Printed lines are sequences of pieces: the literal parts of an f-string *)
(* are named by an English tag, the interpolated values are kept as they   *)
(* are.                                                                    *)
(***************************************************************************)
EXTENDS Integers, Sequences, FiniteSets, TLC

\* ------------------------------------------------------------------ bounds
\* longest text typed after an optional scheme prefix, pure-function checks
MaxBody == 2
\* longest text typed after an optional scheme prefix, at the tool's prompts
MaxTyped == 1
\* most lines typed into one batch collection
MaxUrls == 3

\* ------------------------------------------------------------------- text
HTTP == <<"h", "t", "t", "p", ":", "/", "/">>
HTTPS == <<"h", "t", "t", "p", "s", ":", "/", "/">>
UPPER_HTTP == <<"H", "T", "T", "P", ":", "/", "/">>
SOCKS4 == <<"s", "o", "c", "k", "s", "4", ":", "/", "/">>
SOCKS5 == <<"s", "o", "c", "k", "s", "5", ":", "/", "/">>
FTP == <<"f", "t", "p", ":", "/", "/">>

Alphabet == {"a", "/", ":", "[", "?", " "}
Prefixes == {<<>>, HTTP, HTTPS, UPPER_HTTP}

RECURSIVE TextsUpTo(_)
TextsUpTo(n) ==
    IF n = 0 THEN {<<>>}
    ELSE LET shorter == TextsUpTo(n - 1)
         IN  shorter \cup {Append(t, c) : t \in shorter, c \in Alphabet}

\* every text the checks feed to the pure functions
Texts == {p \o b : p \in Prefixes, b \in TextsUpTo(MaxBody)}
\* every line typed at a URL prompt of the single-URL flows
TypedLines == {p \o b : p \in Prefixes, b \in TextsUpTo(MaxTyped)}
\* the lines typed into a batch collection: a bare host, a host with scheme,
\* a path without host, an unbalanced bracket, and the blank line that ends it
BatchLines == {<<"a">>, HTTP \o <<"a">>, <<"/">>, <<"[">>, <<>>}
\* the lines typed at a proxy prompt
ProxyLines ==
    {<<>>, <<" ">>, HTTP \o <<"p">>, SOCKS5 \o <<"p", " ">>, FTP \o <<"p">>,
     UPPER_HTTP \o <<"p">>, <<"p">>}

\* str.startswith(prefix)
StartsWith(s, p) == Len(s) >= Len(p) /\ SubSeq(s, 1, Len(p)) = p

\* str.startswith((p1, p2, ...))
StartsWithAny(s, ps) == \E p \in ps : StartsWith(s, p)

IsSpace(c) == c = " "

\* str.strip(): drop leading and trailing whitespace
RECURSIVE LStrip(_)
LStrip(s) == IF s # <<>> /\ IsSpace(Head(s)) THEN LStrip(Tail(s)) ELSE s

RECURSIVE RStrip(_)
RStrip(s) ==
    IF s # <<>> /\ IsSpace(s[Len(s)]) THEN RStrip(SubSeq(s, 1, Len(s) - 1)) ELSE s

strip(s) == RStrip(LStrip(s))

\* str.lower() on the letters the model types
LowerChar(c) ==
    CASE c = "H" -> "h"
      [] c = "T" -> "t"
      [] c = "P" -> "p"
      [] c = "Q" -> "q"
      [] OTHER -> c

Lower(s) == [i \in 1..Len(s) |-> LowerChar(s[i])]

\* str.find(c), 1-based; 0 when absent
Find(s, c) ==
    IF \E i \in 1..Len(s) : s[i] = c
    THEN CHOOSE i \in 1..Len(s) : s[i] = c /\ \A j \in 1..(i - 1) : s[j] # c
    ELSE 0

Contains(s, c) == \E i \in 1..Len(s) : s[i] = c

\* ---------------------------------------------------------------- urlparse
Letters == {"a", "f", "h", "k", "o", "p", "s", "t", "c", "H", "T", "P"}
SchemeChars == Letters \cup {"4", "5", "+", "-", "."}
NetlocDelims == {"/", "?", "#"}

\* urllib.parse.urlparse(url): the scheme is the text before the first ':'
\* when it starts with a letter and holds scheme characters only; the
\* network location is what follows "//" up to the first of / ? #; a
\* bracket without its partner in the network location raises ValueError.
urlparse(url) ==
    LET colon == Find(url, ":")
        hasScheme == /\ colon > 1
                     /\ url[1] \in Letters
                     /\ \A j \in 1..(colon - 1) : url[j] \in SchemeChars
        scheme == IF hasScheme THEN Lower(SubSeq(url, 1, colon - 1)) ELSE <<>>
        rest == IF hasScheme THEN SubSeq(url, colon + 1, Len(url)) ELSE url
        hasNetloc == Len(rest) >= 2 /\ rest[1] = "/" /\ rest[2] = "/"
        ends == {i \in 3..Len(rest) : rest[i] \in NetlocDelims}
        delim == IF ends = {} THEN Len(rest) + 1
                 ELSE CHOOSE i \in ends : \A j \in ends : i <= j
        netloc == IF hasNetloc THEN SubSeq(rest, 3, delim - 1) ELSE <<>>
        raises == Contains(netloc, "[") # Contains(netloc, "]")
    IN  [raised |-> raises, scheme |-> scheme, netloc |-> netloc]

\* format_url without its test: the prefix is added to every input
format_url_always(url) == HTTPS \o url

\* CookieRefresherCLI.format_url
format_url(url) ==
    IF ~StartsWithAny(url, {HTTP, HTTPS}) THEN HTTPS \o url ELSE url

\* validate_url asking for a scheme only
validate_url_scheme_only(url) ==
    LET result == urlparse(url)
    IN  IF result.raised THEN FALSE ELSE result.scheme # <<>>

\* CookieRefresherCLI.validate_url: all([scheme, netloc]); the bare except
\* turns a ValueError of urlparse into False
validate_url(url) ==
    LET result == urlparse(url)
    IN  IF result.raised THEN FALSE
        ELSE result.scheme # <<>> /\ result.netloc # <<>>

\* quick_refresh.main, lines 91-93: the inline normalization
quick_format(url) ==
    IF ~StartsWithAny(url, {HTTP, HTTPS}) THEN HTTPS \o url ELSE url

\* quick_refresh.main, lines 96-100: urlparse is called and its result is
\* dropped; only a raised exception rejects the URL
quick_validate(url) == ~urlparse(url).raised

\* ------------------------------------------------------ the remote service
HTTP_OK == 200
\* the statuses other than 200 the service answers with here
OtherStatuses == {429}

NoText == <<>>
Details == {<<"rate limited">>, <<"bad url">>}

\* What one request can meet. exc is the exception the transport raises
\* ("none" when a response arrives); json tells whether the body parses as
\* JSON; detail is the body's 'detail' field (NoText when absent); rstatus is
\* the body's 'status' field; complete tells whether the body carries
\* hostname, cookies_count, user_agent and generation_time_ms.
Answer(status, json, detail, rstatus, complete) ==
    [exc |-> "none", status |-> status, json |-> json, detail |-> detail,
     rstatus |-> rstatus, complete |-> complete]

Failure(exc) ==
    [exc |-> exc, status |-> 0, json |-> FALSE, detail |-> NoText,
     rstatus |-> "", complete |-> FALSE]

Responses ==
    {Answer(HTTP_OK, TRUE, NoText, rs, c) :
        rs \in {"success", "error"}, c \in BOOLEAN}
    \cup {Answer(st, TRUE, d, "", FALSE) :
            st \in OtherStatuses, d \in Details \cup {NoText}}
    \cup {Answer(st, FALSE, NoText, "", FALSE) : st \in OtherStatuses}
    \cup {Failure(e) : e \in {"TimeoutError", "ClientConnectorError",
                              "KeyboardInterrupt", "CancelledError"}}

\* ------------------------------------------------------------- exceptions
\* Ctrl-C reaches the code as KeyboardInterrupt, or as the CancelledError that
\* asyncio.run throws into the main task before raising KeyboardInterrupt
\* itself; which one depends on the interpreter. Both derive from
\* BaseException only: "except Exception" lets them through.
Interrupts == {"KeyboardInterrupt", "CancelledError"}

IsException(e) == e \notin {"none"} \cup Interrupts

\* str(e)
ExcText(e) ==
    CASE e = "ClientConnectorError" -> <<"Cannot connect to host localhost:8000">>
      [] e = "ContentTypeError" -> <<"Attempt to decode JSON with unexpected mimetype">>
      [] e = "TypeError" -> <<"unsupported operand type(s) for /">>
      [] e = "OSError" -> <<"Permission denied">>
      [] e = "EOFError" -> <<"EOF when reading a line">>
      [] OTHER -> <<>>

StatusText(n) ==
    CASE n = HTTP_OK -> <<"200">>
      [] n = 429 -> <<"429">>
      [] OTHER -> <<"0">>

\* the value a client call hands back: what it returned, what it printed
\* (a sequence of lines), and the exception it let through ("none" if none)
Returned(ret, value, out) ==
    [ret |-> ret, value |-> value, out |-> out, raised |-> "none"]

Raised(e, out) ==
    [ret |-> "", value |-> Failure("none"), out |-> out, raised |-> e]

NoOutcome == Returned("", Failure("none"), <<>>)

\* the error branch printing its generic text whatever the body holds
DetailDropped(resp, default) == default

\* dict.get('detail', default)
DetailOr(resp, default) == IF resp.detail # NoText THEN resp.detail ELSE default

SERVER_URL == <<"http://localhost:8000">>

\* the words the timeout messages share, and the words the connection
\* messages share, across the scripts that have such messages
TIMEOUT_WORD == <<"timeout">>
CONNECT_WORDS == <<"cannot connect to server">>

\* ------------------------------------------- interactive_refresh.py client
MSG_CLI_TIMEOUT == <<"request ">> \o TIMEOUT_WORD \o <<" - the server took too long">>
MSG_CLI_CONNECT == CONNECT_WORDS \o <<" (">> \o SERVER_URL \o <<")">>

\* the lines printed before the request leaves (lines 47-50)
CliBanner(url, proxy) ==
    <<<<"refreshing ">> \o url \o <<"...">>>>
    \o (IF proxy # NoText THEN <<<<"using proxy: ">> \o proxy>> ELSE <<>>)
    \o <<<<"please wait, this may take 10-30 seconds...">>>>

\* the except clauses of CookieRefresherCLI.refresh_cookies (lines 64-73)
CliRefreshExcept(e, out) ==
    CASE e = "TimeoutError" ->
            Returned("None", Failure("none"), Append(out, MSG_CLI_TIMEOUT))
      [] e = "ClientConnectorError" ->
            Returned("None", Failure("none"),
                     out \o <<MSG_CLI_CONNECT, <<"make sure the server is started">>>>)
      [] IsException(e) /\ e \notin {"TimeoutError", "ClientConnectorError"} ->
            Returned("None", Failure("none"),
                     Append(out, <<"request failed: ">> \o ExcText(e)))
      [] OTHER -> Raised(e, out)

\* CookieRefresherCLI.refresh_cookies(url, proxy) meeting resp
CliRefreshCookies(url, proxy, resp) ==
    LET out == CliBanner(url, proxy)
    IN  IF resp.exc # "none" THEN CliRefreshExcept(resp.exc, out)
        ELSE IF ~resp.json THEN CliRefreshExcept("ContentTypeError", out)
        ELSE IF resp.status = HTTP_OK THEN Returned("Result", resp, out)
        ELSE Returned("None", Failure("none"),
                      out \o << <<"error (status: ">> \o StatusText(resp.status) \o <<")">>,
                                <<"   ">> \o DetailOr(resp, <<"unknown error">>) >>)

\* CookieRefresherCLI.get_cookies(url) meeting resp: every exception of the
\* Exception family and every non-200 answer becomes a silent None
CliGetCookies(resp) ==
    IF resp.exc # "none"
    THEN IF IsException(resp.exc) THEN Returned("None", Failure("none"), <<>>)
         ELSE Raised(resp.exc, <<>>)
    ELSE IF resp.status = HTTP_OK /\ resp.json THEN Returned("Result", resp, <<>>)
    ELSE Returned("None", Failure("none"), <<>>)

\* ------------------------------------------------ quick_refresh.py client
MSG_QUICK_TIMEOUT == TIMEOUT_WORD \o <<" - the refresh took too long">>
MSG_QUICK_CONNECT == CONNECT_WORDS \o <<" (http://localhost:8000)">>

QuickBanner(url, proxy) ==
    <<<<"refreshing ">> \o url \o <<"...">>>>
    \o (IF proxy # NoText THEN <<<<"   proxy: ">> \o proxy>> ELSE <<>>)
    \o <<<<"   please wait...">>>>

\* the except clauses of refresh_and_display (lines 61-70)
QuickExcept(e, out) ==
    CASE e = "TimeoutError" ->
            Returned("False", Failure("none"), Append(out, MSG_QUICK_TIMEOUT))
      [] e = "ClientConnectorError" ->
            Returned("False", Failure("none"),
                     out \o <<MSG_QUICK_CONNECT,
                              <<"make sure the server is started: python server.py">>>>)
      [] IsException(e) /\ e \notin {"TimeoutError", "ClientConnectorError"} ->
            Returned("False", Failure("none"),
                     Append(out, <<"error: ">> \o ExcText(e)))
      [] OTHER -> Raised(e, out)

\* refresh_and_display(url, proxy) from its start to the save prompt of line
\* 49: ret "Prompt" means the 200 branch reached the prompt; the division of
\* line 41 raises TypeError when generation_time_ms is missing
QuickRefresh(url, proxy, resp) ==
    LET out == QuickBanner(url, proxy)
    IN  IF resp.exc # "none" THEN QuickExcept(resp.exc, out)
        ELSE IF ~resp.json THEN QuickExcept("ContentTypeError", out)
        ELSE IF resp.status = HTTP_OK
             THEN IF resp.complete
                  THEN Returned("Prompt", resp, Append(out, <<"refresh succeeded">>))
                  ELSE QuickExcept("TypeError", Append(out, <<"refresh succeeded">>))
        ELSE Returned("False", Failure("none"),
                      Append(out, <<"error: ">> \o DetailOr(resp, <<"unknown error">>)))

\* ---------------------------------------------- refresh_example.py client
\* CacheFreshener.refresh_cookies(url, proxy) meeting resp: one except
\* clause, "except Exception", for every failure (lines 42-53)
DemoRefreshExcept(e, out) ==
    IF IsException(e)
    THEN Returned("None", Failure("none"),
                  Append(out, <<"request failed: ">> \o ExcText(e)))
    ELSE Raised(e, out)

DemoRefreshCookies(resp) ==
    IF resp.exc # "none" THEN DemoRefreshExcept(resp.exc, <<>>)
    ELSE IF ~resp.json THEN DemoRefreshExcept("ContentTypeError", <<>>)
    ELSE IF resp.status = HTTP_OK THEN Returned("Result", resp, <<>>)
    ELSE Returned("None", Failure("none"),
                  << <<"refresh failed (status: ">> \o StatusText(resp.status) \o <<")">>,
                     <<"   error: ">> \o DetailOr(resp, <<"unknown error">>) >>)

\* CacheFreshener.get_cookies and get_cache_stats share the shape (lines
\* 65-96); only what they print on a non-200 answer differs
DemoGet(resp, what) ==
    IF resp.exc # "none" THEN DemoRefreshExcept(resp.exc, <<>>)
    ELSE IF resp.status = HTTP_OK
         THEN IF resp.json THEN Returned("Result", resp, <<>>)
              ELSE DemoRefreshExcept("ContentTypeError", <<>>)
    ELSE IF what = "stats"
         THEN Returned("None", Failure("none"),
                       << <<"stats failed (status: ">> \o StatusText(resp.status) \o <<")">> >>)
    ELSE IF ~resp.json THEN DemoRefreshExcept("ContentTypeError", <<>>)
    ELSE Returned("None", Failure("none"),
                  << <<"get failed (status: ">> \o StatusText(resp.status) \o <<")">>,
                     <<"   error: ">> \o DetailOr(resp, <<"unknown error">>) >>)

\* a line of out holds text as a contiguous run
HasText(line, text) ==
    \E i \in 1..(Len(line) - Len(text) + 1) : SubSeq(line, i, i + Len(text) - 1) = text

Prints(out, text) == \E k \in 1..Len(out) : HasText(out[k], text)

\* ------------------------------------------------------------------ state
VARIABLES
    script,     \* which of the three scripts runs: "cli", "quick", "demo", or
                \* "pure" for the checks of the pure functions
    pc,         \* where the script stands
    choice,     \* the menu choice being served
    url,        \* the normalized URL of the current action
    proxy,      \* the proxy of the current action (NoText for None)
    entered,    \* the non-blank lines typed into the batch collection so far
    urls,       \* batch_refresh: urls
    i,          \* batch_refresh: the loop index
    results,    \* batch_refresh: results
    resp,       \* what the latest request met
    last,       \* what the latest client call returned, printed and raised
    log,        \* the requests, returns and pauses of the current action
    summary,    \* the counts batch_refresh displayed
    saved,      \* the batch document written to disk, if any
    session,    \* CookieRefresherCLI.session: its state ("none", "open" or
                \* "closed") and how many ClientSessions were made for it
    fault,      \* the kind of error the current action has hit, if any
    exitCode,   \* the process exit code, once pc = "exit"
    raisedTop,  \* the exception that reached the top level ("none" if none)
    cause,      \* why the main coroutine ended
    raw,        \* pure-function checks: the text given
    once,       \* format_url(raw)
    twice,      \* format_url(once)
    qonce,      \* quick_format(raw)
    qtwice,     \* quick_format(qonce)
    handed,     \* display_cookies: the mapping handed in, as it was
    cookies,    \* display_cookies: cookies, the same mapping object
    display     \* display_cookies: its two groups and the lines it printed

actionVars == <<choice, url, proxy, entered, urls, i, results, resp, last, log,
                summary, saved, fault>>
exitVars == <<exitCode, raisedTop, cause>>
pureVars == <<raw, once, twice, qonce, qtwice, handed, cookies, display>>
vars == <<script, pc, actionVars, session, exitVars, pureVars>>

NoSummary == [total |-> 0, success |-> 0, failed |-> 0]
NoDocument == [written |-> FALSE, total |-> 0, success |-> 0, failed |-> 0,
               results |-> <<>>]

\* the locals of an action before it starts
FreshAction ==
    /\ url = NoText /\ proxy = NoText /\ entered = <<>> /\ urls = <<>>
    /\ i = 0 /\ results = <<>> /\ resp = Failure("none") /\ last = NoOutcome
    /\ log = <<>> /\ summary = NoSummary /\ saved = NoDocument
    /\ fault = "none"

BeginWith(c, u, f) ==
    /\ choice' = c
    /\ url' = u /\ proxy' = NoText /\ entered' = <<>> /\ urls' = <<>>
    /\ i' = 0 /\ results' = <<>> /\ resp' = Failure("none") /\ last' = NoOutcome
    /\ log' = <<>> /\ summary' = NoSummary /\ saved' = NoDocument
    /\ fault' = f

BeginAction(c) == BeginWith(c, NoText, "none")

\* CookieRefresherCLI.__init__: self.session = None
NoSession == [state |-> "none", made |-> 0]

\* display_cookies before it has run
NoDisplay == [cf_cookies |-> <<>>, other_cookies |-> <<>>, out |-> <<>>]

NoCookies == handed = <<>> /\ cookies = <<>> /\ display = NoDisplay

PureIdle == raw = NoText /\ once = NoText /\ twice = NoText
            /\ qonce = NoText /\ qtwice = NoText /\ NoCookies

Scripts == {"cli", "quick", "demo"}

StartPc(s) ==
    CASE s = "cli" -> "probe"
      [] s = "quick" -> "q_url"
      [] s = "demo" -> "e_choice"

Init ==
    /\ script \in Scripts
    /\ pc = StartPc(script)
    /\ choice = ""
    /\ FreshAction
    /\ session = NoSession
    /\ exitCode = -1 /\ raisedTop = "none" /\ cause = ""
    /\ PureIdle

\* ------------------------------------------------------- process exit
EXIT_OK == 0
EXIT_ERROR == 1
EXIT_SIGINT == 130

\* interactive_refresh.py, lines 465-473
CliExitCode(e) ==
    IF e = "none" THEN EXIT_OK
    ELSE IF e \in Interrupts THEN EXIT_OK
    ELSE EXIT_ERROR

\* quick_refresh.py, lines 133-137: KeyboardInterrupt is caught and the
\* script falls off its end; any other exception is the interpreter's
QuickExitCode(e) ==
    IF e = "none" THEN EXIT_OK
    ELSE IF e \in Interrupts THEN EXIT_OK
    ELSE EXIT_ERROR

\* refresh_example.py, lines 268-269: asyncio.run(main()) with no handler
\* around it; an uncaught KeyboardInterrupt ends the interpreter by SIGINT
DemoExitCode(e) ==
    IF e = "none" THEN EXIT_OK
    ELSE IF e \in Interrupts THEN EXIT_SIGINT
    ELSE EXIT_ERROR

ExitCodeOf(s, e) ==
    CASE s = "cli" -> CliExitCode(e)
      [] s = "quick" -> QuickExitCode(e)
      [] s = "demo" -> DemoExitCode(e)

\* refresh_cookies and get_cookies with a new ClientSession on every call
EnsureSessionFresh(sess) == [state |-> "open", made |-> sess.made + 1]

\* refresh_cookies and get_cookies, lines 39-40 and 77-78: the session is
\* made on first use
EnsureSession(sess) ==
    IF sess.state = "none" THEN [state |-> "open", made |-> sess.made + 1]
    ELSE sess

\* CookieRefresherCLI.__aexit__: close the session if there is one
Aexit(sess) ==
    IF sess.state = "open" THEN [sess EXCEPT !.state = "closed"] ELSE sess

\* the main coroutine ends: by returning (e = "none", why says how) or by
\* the exception e leaving it
Leave(e, why, sess) ==
    /\ pc' = "exit"
    /\ exitCode' = ExitCodeOf(script, e)
    /\ raisedTop' = e
    /\ cause' = why
    /\ session' = Aexit(sess)

Stay(next) ==
    /\ pc' = next
    /\ UNCHANGED exitVars

\* ----------------------------------------- interactive_refresh.py: helpers
PROXY_SCHEMES == {HTTP, HTTPS, SOCKS4, SOCKS5}

\* a proxy prompt that keeps whatever was typed
CliProxyKept(line) == line

\* the proxy kept from the line typed at the proxy prompt of
\* refresh_single_url and batch_refresh: an empty or ill-formed proxy is
\* dropped and the action goes on without one
CliProxy(line) ==
    IF line = NoText THEN NoText
    ELSE IF ~StartsWithAny(line, PROXY_SCHEMES) THEN NoText
    ELSE line

\* the kind of error a request ran into
FaultOf(r) ==
    CASE r.exc \in {"TimeoutError", "ClientConnectorError"} -> "network"
      [] r.exc = "none" /\ (r.status # HTTP_OK \/ ~r.json) -> "remote"
      [] r.exc = "none" /\ r.status = HTTP_OK /\ r.json /\ r.rstatus # "success" -> "remote"
      [] OTHER -> "none"

\* an ill-formed proxy line is an input-validation error
ProxyFault(use_proxy, line, before) ==
    IF use_proxy /\ line # NoText /\ ~StartsWithAny(line, PROXY_SCHEMES)
    THEN "validation" ELSE before

\* the error an action has hit: the one of this request if it failed, the
\* earlier one otherwise
FaultAfter(r, before) == IF FaultOf(r) # "none" THEN FaultOf(r) ELSE before

\* the entries of log: a request leaving, a call returning, a pause
Post(u, p) == [ev |-> "post", url |-> u, proxy |-> p, secs |-> 0]
Get(u) == [ev |-> "get", url |-> u, proxy |-> NoText, secs |-> 0]
Return(u) == [ev |-> "return", url |-> u, proxy |-> NoText, secs |-> 0]
Sleep(secs) == [ev |-> "sleep", url |-> NoText, proxy |-> NoText, secs |-> secs]

\* result and result.get('status') == 'success'
IsSuccess(o) == o.ret = "Result" /\ o.value.rstatus = "success"

\* the save functions without their try
SaveUnguarded(e) == e

\* the try/except of save_result_to_file and save_batch_results: what is
\* left of the exception e raised while writing
SaveExcept(e) == IF IsException(e) THEN "none" ELSE e

WriteErrors == {"none", "OSError"}

\* a failed record that leaves its URL out
BatchRecordNoUrl(u, o) ==
    IF IsSuccess(o)
    THEN [url |-> u, status |-> "success", timed |-> o.value.complete]
    ELSE [url |-> NoText, status |-> "failed", timed |-> FALSE]

\* batch_refresh, lines 328-342: the record appended for one URL
BatchRecord(u, o) ==
    IF IsSuccess(o)
    THEN [url |-> u, status |-> "success", timed |-> o.value.complete]
    ELSE [url |-> u, status |-> "failed", timed |-> FALSE]

\* sum(1 for r in results if r['status'] == status)
CountStatus(rs, status) == Cardinality({k \in 1..Len(rs) : rs[k].status = status})

\* a summary that counts every record as failed
BatchSummaryAllFailed(rs) ==
    [total |-> Len(rs), success |-> CountStatus(rs, "success"), failed |-> Len(rs)]

\* batch_refresh, lines 353-358: the counts of the displayed summary
BatchSummary(rs) ==
    LET success_count == CountStatus(rs, "success")
    IN  [total |-> Len(rs), success |-> success_count,
         failed |-> Len(rs) - success_count]

\* batch_refresh, lines 360-364: the sum over time_ms raises TypeError when a
\* successful record holds None for it
SummaryRaises(rs) ==
    IF \E k \in 1..Len(rs) : rs[k].status = "success" /\ ~rs[k].timed
    THEN "TypeError" ELSE "none"

\* save_batch_results, lines 398-404: the document written
BatchDocument(rs) ==
    [written |-> TRUE, total |-> Len(rs),
     success |-> CountStatus(rs, "success"),
     failed |-> CountStatus(rs, "failed"),
     results |-> rs]

\* the pause test off by one: no pause before the last item
PauseAfterShort(k, n) == k < n - 1

\* batch_refresh, line 345: whether a pause follows item k of n
PauseAfter(k, n) == k < n

PAUSE_SECONDS == 2

\* ------------------------------------------ interactive_refresh.py: main
\* main, lines 421-440: the connectivity probe on its own session
CliProbe ==
    /\ script = "cli" /\ pc = "probe"
    /\ \E r \in Responses :
         IF r.exc \in Interrupts THEN Leave(r.exc, "raised", session)
         ELSE IF r.exc = "none" /\ r.status = HTTP_OK
              THEN Stay("menu") /\ UNCHANGED session
         ELSE Leave("none", "probe", session)
    /\ UNCHANGED <<script, actionVars, pureVars>>

\* main, lines 443-459: one pass of the menu
CliMenu ==
    /\ script = "cli" /\ pc = "menu"
    /\ \E c \in {"1", "2", "3", "4", "0", "9"} :
         /\ BeginAction(c)
         /\ CASE c = "1" -> Stay("single_url") /\ UNCHANGED session
              [] c = "2" -> Stay("view_url") /\ UNCHANGED session
              [] c = "3" -> Stay("batch_collect") /\ UNCHANGED session
              [] c = "4" -> Stay("menu") /\ UNCHANGED session
              [] c = "0" -> Leave("none", "quit", session)
              [] OTHER -> Stay("pause_enter") /\ UNCHANGED session
    /\ UNCHANGED <<script, pureVars>>

\* main, line 462
CliPause ==
    /\ script = "cli" /\ pc = "pause_enter"
    /\ Stay("menu")
    /\ UNCHANGED <<script, actionVars, session, pureVars>>

\* the URL prompt of refresh_single_url (lines 214-224) and of
\* view_cached_cookies (lines 262-272)
CliAskUrl(here, next) ==
    /\ script = "cli" /\ pc = here
    /\ \E line \in TypedLines :
         LET typed == strip(line)
             u == format_url(typed)
         IN  IF typed = NoText
             THEN /\ fault' = "validation" /\ Stay("pause_enter")
                  /\ UNCHANGED url
             ELSE IF ~validate_url(u)
             THEN /\ fault' = "validation" /\ Stay("pause_enter")
                  /\ url' = u
             ELSE /\ url' = u /\ Stay(next) /\ UNCHANGED fault
    /\ UNCHANGED <<script, choice, proxy, entered, urls, i, results, resp, last,
                   log, summary, saved, session, pureVars>>

CliSingleUrl == CliAskUrl("single_url", "single_proxy")

CliViewUrl == CliAskUrl("view_url", "view_get")

\* refresh_single_url, lines 227-240
CliSingleProxy ==
    /\ script = "cli" /\ pc = "single_proxy"
    /\ \E use_proxy \in BOOLEAN, line \in ProxyLines :
         /\ proxy' = IF use_proxy THEN CliProxy(strip(line)) ELSE NoText
         /\ fault' = ProxyFault(use_proxy, strip(line), fault)
    /\ Stay("single_refresh")
    /\ UNCHANGED <<script, choice, url, entered, urls, i, results, resp, last,
                   log, summary, saved, session, pureVars>>

\* refresh_single_url, lines 243-245
CliSingleRefresh ==
    /\ script = "cli" /\ pc = "single_refresh"
    /\ \E r \in Responses :
         LET o == CliRefreshCookies(url, proxy, r)
         IN  /\ resp' = r /\ last' = o
             /\ log' = log \o <<Post(url, proxy), Return(url)>>
             /\ fault' = FaultAfter(r, fault)
             /\ IF o.raised # "none"
                THEN Leave(o.raised, "raised", EnsureSession(session))
                ELSE IF IsSuccess(o)
                     THEN Stay("single_view_q") /\ session' = EnsureSession(session)
                ELSE Stay("pause_enter") /\ session' = EnsureSession(session)
    /\ UNCHANGED <<script, choice, url, proxy, entered, urls, i, results,
                   summary, saved, pureVars>>

\* refresh_single_url, lines 249-252
CliSingleView ==
    /\ script = "cli" /\ pc = "single_view_q"
    /\ \/ /\ Stay("single_save_q")
          /\ UNCHANGED <<resp, last, log, fault, session>>
       \/ \E r \in Responses :
            LET o == CliGetCookies(r)
            IN  /\ resp' = r /\ last' = o
                /\ log' = log \o <<Get(url), Return(url)>>
                /\ fault' = FaultAfter(r, fault)
                /\ IF o.raised # "none"
                   THEN Leave(o.raised, "raised", EnsureSession(session))
                   ELSE Stay("single_save_q") /\ session' = EnsureSession(session)
    /\ UNCHANGED <<script, choice, url, proxy, entered, urls, i, results,
                   summary, saved, pureVars>>

\* refresh_single_url, lines 255-256, with save_result_to_file
CliSingleSave ==
    /\ script = "cli" /\ pc = "single_save_q"
    /\ \/ /\ Stay("pause_enter") /\ UNCHANGED <<fault, session>>
       \/ \E w \in WriteErrors :
            /\ fault' = IF w = "OSError" THEN "file" ELSE fault
            /\ IF SaveExcept(w) # "none" THEN Leave(SaveExcept(w), "raised", session)
               ELSE Stay("pause_enter") /\ UNCHANGED session
    /\ UNCHANGED <<script, choice, url, proxy, entered, urls, i, results, resp,
                   last, log, summary, saved, pureVars>>

\* view_cached_cookies, lines 276-281
CliViewGet ==
    /\ script = "cli" /\ pc = "view_get"
    /\ \E r \in Responses :
         LET o == CliGetCookies(r)
         IN  /\ resp' = r /\ last' = o
             /\ log' = log \o <<Get(url), Return(url)>>
             /\ fault' = FaultOf(r)
             /\ IF o.raised # "none"
                THEN Leave(o.raised, "raised", EnsureSession(session))
                ELSE Stay("pause_enter") /\ session' = EnsureSession(session)
    /\ UNCHANGED <<script, choice, url, proxy, entered, urls, i, results,
                   summary, saved, pureVars>>

\* --------------------------------------- interactive_refresh.py: batch
\* batch_refresh, lines 293-306: one line of the collection loop
CliBatchCollect ==
    /\ script = "cli" /\ pc = "batch_collect"
    /\ \E line \in BatchLines :
         LET typed == strip(line)
             u == format_url(typed)
         IN  /\ typed = NoText \/ Len(entered) < MaxUrls
             /\ IF typed = NoText
                THEN /\ UNCHANGED <<entered, urls>>
                     /\ IF urls = <<>>
                        THEN fault' = "validation" /\ Stay("pause_enter")
                        ELSE UNCHANGED fault /\ Stay("batch_proxy")
                ELSE /\ entered' = Append(entered, typed)
                     /\ Stay("batch_collect")
                     /\ IF validate_url(u)
                        THEN urls' = Append(urls, u) /\ UNCHANGED fault
                        ELSE UNCHANGED urls /\ fault' = "validation"
    /\ UNCHANGED <<script, choice, url, proxy, i, results, resp, last, log,
                   summary, saved, session, pureVars>>

\* batch_refresh, lines 311-322
CliBatchProxy ==
    /\ script = "cli" /\ pc = "batch_proxy"
    /\ \E use_proxy \in BOOLEAN, line \in ProxyLines :
         /\ proxy' = IF use_proxy THEN CliProxy(strip(line)) ELSE NoText
         /\ fault' = ProxyFault(use_proxy, strip(line), fault)
    /\ i' = 1 /\ results' = <<>>
    /\ Stay("batch_call")
    /\ UNCHANGED <<script, choice, url, entered, urls, resp, last, log, summary,
                   saved, session, pureVars>>

\* batch_refresh, lines 324-326: the request for item i leaves
CliBatchStart ==
    /\ script = "cli" /\ pc = "batch_call"
    /\ log' = Append(log, Post(urls[i], proxy))
    /\ session' = EnsureSession(session)
    /\ Stay("batch_wait")
    /\ UNCHANGED <<script, choice, url, proxy, entered, urls, i, results, resp,
                   last, summary, saved, fault, pureVars>>

\* batch_refresh, lines 326-345: the call for item i returns and its record
\* is appended
CliBatchReturn ==
    /\ script = "cli" /\ pc = "batch_wait"
    /\ \E r \in Responses :
         LET o == CliRefreshCookies(urls[i], proxy, r)
         IN  /\ resp' = r /\ last' = o
             /\ IF o.raised # "none"
                THEN /\ Leave(o.raised, "raised", session)
                     /\ UNCHANGED <<results, log, fault>>
                ELSE /\ results' = Append(results, BatchRecord(urls[i], o))
                     /\ log' = Append(log, Return(urls[i]))
                     /\ fault' = FaultAfter(r, fault)
                     /\ UNCHANGED session
                     /\ IF PauseAfter(i, Len(urls))
                        THEN Stay("batch_sleep")
                        ELSE Stay("batch_summary")
    /\ UNCHANGED <<script, choice, url, proxy, entered, urls, i, summary, saved,
                   pureVars>>

\* batch_refresh, line 346, and the step to the next item
CliBatchSleep ==
    /\ script = "cli" /\ pc = "batch_sleep"
    /\ log' = Append(log, Sleep(PAUSE_SECONDS))
    /\ i' = i + 1
    /\ Stay("batch_call")
    /\ UNCHANGED <<script, choice, url, proxy, entered, urls, results, resp,
                   last, summary, saved, fault, session, pureVars>>

\* batch_refresh, lines 349-366: the summary
CliBatchSummary ==
    /\ script = "cli" /\ pc = "batch_summary"
    /\ summary' = BatchSummary(results)
    /\ IF BatchSummary(results).success > 0 /\ SummaryRaises(results) # "none"
       THEN Leave(SummaryRaises(results), "raised", session)
       ELSE Stay("batch_save_q") /\ UNCHANGED session
    /\ UNCHANGED <<script, choice, url, proxy, entered, urls, i, results, resp,
                   last, log, saved, fault, pureVars>>

\* batch_refresh, lines 369-370, with save_batch_results
CliBatchSave ==
    /\ script = "cli" /\ pc = "batch_save_q"
    /\ \/ /\ Stay("pause_enter") /\ UNCHANGED <<saved, fault, session>>
       \/ \E w \in WriteErrors :
            /\ saved' = IF w = "none" THEN BatchDocument(results) ELSE saved
            /\ fault' = IF w = "OSError" THEN "file" ELSE fault
            /\ IF SaveExcept(w) # "none" THEN Leave(SaveExcept(w), "raised", session)
               ELSE Stay("pause_enter") /\ UNCHANGED session
    /\ UNCHANGED <<script, choice, url, proxy, entered, urls, i, results, resp,
                   last, log, summary, pureVars>>

\* ------------------------------------------------- quick_refresh.py: main
QuitWords == {<<"q", "u", "i", "t">>, <<"e", "x", "i", "t">>, <<"q">>}
QuitLines == {<<"q">>, <<"Q">>, <<"q", "u", "i", "t">>}

\* main, lines 81-100: the URL prompt, the normalization and the validation
QuickUrl ==
    /\ script = "quick" /\ pc = "q_url"
    /\ \E line \in TypedLines \cup QuitLines :
         LET typed == strip(line)
             u == quick_format(typed)
         IN  IF Lower(typed) \in QuitWords
             THEN BeginAction("") /\ Leave("none", "quit", session)
             ELSE /\ UNCHANGED session
                  /\ IF typed = NoText \/ ~quick_validate(u)
                     THEN BeginWith("", NoText, "validation") /\ Stay("q_url")
                     ELSE BeginWith("", u, "none") /\ Stay("q_proxy")
    /\ UNCHANGED <<script, pureVars>>

\* main, lines 103-112: an ill-formed proxy abandons the pass
QuickProxy ==
    /\ script = "quick" /\ pc = "q_proxy"
    /\ \E use_proxy \in BOOLEAN, line \in ProxyLines :
         LET typed == strip(line)
         IN  IF ~use_proxy \/ typed = NoText
             THEN proxy' = NoText /\ UNCHANGED fault /\ Stay("q_refresh")
             ELSE IF ~StartsWithAny(typed, PROXY_SCHEMES)
             THEN proxy' = typed /\ fault' = "validation" /\ Stay("q_url")
             ELSE proxy' = typed /\ UNCHANGED fault /\ Stay("q_refresh")
    /\ UNCHANGED <<script, choice, url, entered, urls, i, results, resp, last,
                   log, summary, saved, session, pureVars>>

\* main, line 115, with refresh_and_display up to its save prompt
QuickCall ==
    /\ script = "quick" /\ pc = "q_refresh"
    /\ \E r \in Responses :
         LET o == QuickRefresh(url, proxy, r)
         IN  /\ resp' = r /\ last' = o
             /\ log' = log \o <<Post(url, proxy), Return(url)>>
             /\ fault' = FaultOf(r)
             /\ IF o.raised # "none" THEN Leave(o.raised, "raised", session)
                ELSE /\ UNCHANGED session
                     /\ IF o.ret = "Prompt" THEN Stay("q_save") ELSE Stay("q_cont")
    /\ UNCHANGED <<script, choice, url, proxy, entered, urls, i, results,
                   summary, saved, pureVars>>

\* refresh_and_display, lines 49-55: the save prompt and the write, both
\* inside the try
QuickSave ==
    /\ script = "quick" /\ pc = "q_save"
    /\ \/ /\ last' = Returned("True", last.value, last.out)
          /\ UNCHANGED fault
       \/ \E w \in WriteErrors :
            /\ last' = IF w = "none"
                       THEN Returned("True", last.value,
                                     Append(last.out, <<"saved to cookie_">>
                                                      \o urlparse(url).netloc
                                                      \o <<".json">>))
                       ELSE QuickExcept(w, last.out)
            /\ fault' = IF w = "OSError" THEN "file" ELSE fault
    /\ Stay("q_cont")
    /\ UNCHANGED <<script, choice, url, proxy, entered, urls, i, results, resp,
                   log, summary, saved, session, pureVars>>

\* main, lines 117-128: go on or leave
QuickCont ==
    /\ script = "quick" /\ pc = "q_cont"
    /\ \/ Stay("q_url") /\ UNCHANGED session
       \/ Leave("none", "quit", session)
    /\ UNCHANGED <<script, actionVars, pureVars>>

\* -------------------------------------------------- refresh_example.py
DEMO_URLS == <<HTTPS \o <<"example.com">>, HTTPS \o <<"test-site.com">>>>
DEMO_BASIC_URL == HTTPS \o <<"javdb.com">>
DEMO_PROXY == HTTP \o <<"proxy-server:8080">>
DEMO_PAUSE == 2
DEMO_GAP == 3

\* main, lines 260-265: what is left of the exception e raised by a demo
DemoMainExcept(e) ==
    IF e = "KeyboardInterrupt" THEN "none"
    ELSE IF IsException(e) THEN "none"
    ELSE e

\* a demo ends with the exception e (lines 237-265)
DemoRaise(e) ==
    IF DemoMainExcept(e) = "none"
    THEN Leave("none", IF e = "KeyboardInterrupt" THEN "cancelled" ELSE "error",
               session)
    ELSE Leave(DemoMainExcept(e), "raised", session)

\* the subscripts a demo applies to a successful result (lines 113-118,
\* 139-140, 164-168, 194-195): KeyError when the field is missing
DemoShow(o) ==
    IF IsSuccess(o) /\ ~o.value.complete THEN "KeyError" ELSE "none"

\* stats['cached_entries'] and the like (lines 185-189, 210-212)
DemoShowStats(o) ==
    IF o.ret = "Result" /\ ~o.value.complete THEN "KeyError" ELSE "none"

\* main, lines 235-254: the choice
DemoChoice ==
    /\ script = "demo" /\ pc = "e_choice"
    /\ \E c \in {"1", "2", "3", "4", "5", "9"} :
         /\ BeginAction(c)
         /\ CASE c = "1" -> Stay("e_basic") /\ UNCHANGED session
              [] c = "2" -> Stay("e_multi_call") /\ UNCHANGED session
              [] c = "3" -> Stay("e_proxy") /\ UNCHANGED session
              [] c = "4" -> Stay("e_stats1") /\ UNCHANGED session
              [] c = "5" -> Stay("e_basic") /\ UNCHANGED session
              [] OTHER -> Leave("none", "invalid", session)
    /\ UNCHANGED <<script, pureVars>>

\* one call of a demo: the client call o for the request entry, then the
\* demo's own subscripts; next is where the demo goes on
DemoStep(r, o, entry, shown, next) ==
    /\ resp' = r /\ last' = o
    /\ log' = log \o <<entry, Return(entry.url)>>
    /\ fault' = FaultOf(r)
    /\ IF o.raised # "none" THEN DemoRaise(o.raised)
       ELSE IF shown # "none" THEN DemoRaise(shown)
       ELSE Stay(next) /\ UNCHANGED session

\* demo_basic_refresh (lines 105-120) and demo_with_proxy (lines 154-170)
DemoSingle ==
    /\ script = "demo" /\ pc \in {"e_basic", "e_proxy"}
    /\ \E r \in Responses :
         LET o == DemoRefreshCookies(r)
             entry == IF pc = "e_basic" THEN Post(DEMO_BASIC_URL, NoText)
                      ELSE Post(DEMO_URLS[1], DEMO_PROXY)
         IN  DemoStep(r, o, entry, DemoShow(o),
                      IF choice = "5" THEN "e_gap" ELSE "e_done")
    /\ UNCHANGED <<script, choice, url, proxy, entered, urls, i, results,
                   summary, saved, pureVars>>

\* demo_multiple_refreshes, lines 135-142: the call for the next URL
DemoMultiCall ==
    /\ script = "demo" /\ pc = "e_multi_call"
    /\ \E r \in Responses :
         LET o == DemoRefreshCookies(r)
         IN  DemoStep(r, o, Post(DEMO_URLS[i + 1], NoText), DemoShow(o),
                      "e_multi_sleep")
    /\ UNCHANGED <<script, choice, url, proxy, entered, urls, i, results,
                   summary, saved, pureVars>>

\* demo_multiple_refreshes, lines 144-145: the pause after every URL
DemoMultiSleep ==
    /\ script = "demo" /\ pc = "e_multi_sleep"
    /\ log' = Append(log, Sleep(DEMO_PAUSE))
    /\ i' = i + 1
    /\ IF i + 1 < Len(DEMO_URLS) THEN Stay("e_multi_call") ELSE Stay("e_done")
    /\ UNCHANGED <<script, choice, url, proxy, entered, urls, results, resp,
                   last, summary, saved, fault, session, pureVars>>

\* demo_cache_operations, lines 184-189 and 209-212: the two stats calls
DemoStats ==
    /\ script = "demo" /\ pc \in {"e_stats1", "e_stats2"}
    /\ \E r \in Responses :
         LET o == DemoGet(r, "stats")
         IN  DemoStep(r, o, Get(NoText), DemoShowStats(o),
                      IF pc = "e_stats1" THEN "e_cache_refresh" ELSE "e_done")
    /\ UNCHANGED <<script, choice, url, proxy, entered, urls, i, results,
                   summary, saved, pureVars>>

\* demo_cache_operations, lines 193-195
DemoCacheRefresh ==
    /\ script = "demo" /\ pc = "e_cache_refresh"
    /\ \E r \in Responses :
         LET o == DemoRefreshCookies(r)
         IN  DemoStep(r, o, Post(DEMO_URLS[1], NoText), DemoShow(o), "e_cache_get")
    /\ UNCHANGED <<script, choice, url, proxy, entered, urls, i, results,
                   summary, saved, pureVars>>

\* demo_cache_operations, lines 199-205
DemoCacheGet ==
    /\ script = "demo" /\ pc = "e_cache_get"
    /\ \E r \in Responses :
         LET o == DemoGet(r, "cookies")
         IN  DemoStep(r, o, Get(DEMO_URLS[1]), "none", "e_stats2")
    /\ UNCHANGED <<script, choice, url, proxy, entered, urls, i, results,
                   summary, saved, pureVars>>

\* main, lines 249-251: the pause between the two demos of choice 5
DemoGap ==
    /\ script = "demo" /\ pc = "e_gap"
    /\ log' = Append(log, Sleep(DEMO_GAP))
    /\ Stay("e_stats1")
    /\ UNCHANGED <<script, choice, url, proxy, entered, urls, i, results, resp,
                   last, summary, saved, fault, session, pureVars>>

\* main, lines 256-258: the demo is over and main returns
DemoDone ==
    /\ script = "demo" /\ pc = "e_done"
    /\ Leave("none", "done", session)
    /\ UNCHANGED <<script, actionVars, pureVars>>

\* --------------------------------------------- prompts and pauses that fail
\* every pc at which input() is waiting
PromptPcs ==
    {"menu", "pause_enter", "single_url", "view_url", "single_proxy",
     "single_view_q", "single_save_q", "batch_collect", "batch_proxy",
     "batch_save_q", "q_url", "q_proxy", "q_save", "q_cont", "e_choice"}

\* every pc at which asyncio.sleep is waiting
SleepPcs == {"batch_sleep", "e_multi_sleep", "e_gap"}

\* input() raises: EOFError when standard input is closed, or Ctrl-C. Only
\* the save prompt of quick_refresh (line 49) stands inside a try.
PromptRaises ==
    /\ pc \in PromptPcs
    /\ \E e \in {"EOFError"} \cup Interrupts :
         IF script = "quick" /\ pc = "q_save"
         THEN LET o == QuickExcept(e, last.out)
              IN  /\ last' = o
                  /\ IF o.raised # "none" THEN Leave(o.raised, "raised", session)
                     ELSE Stay("q_cont") /\ UNCHANGED session
         ELSE Leave(e, "raised", session) /\ UNCHANGED last
    /\ UNCHANGED <<script, choice, url, proxy, entered, urls, i, results, resp,
                   log, summary, saved, fault, pureVars>>

\* Ctrl-C during asyncio.sleep; the demos sleep inside the try of main
SleepInterrupted ==
    /\ pc \in SleepPcs
    /\ \E e \in Interrupts :
         IF script = "demo" THEN DemoRaise(e) ELSE Leave(e, "raised", session)
    /\ UNCHANGED <<script, actionVars, pureVars>>

\* ------------------------------------------------- the pure functions alone
InitPure ==
    /\ script = "pure" /\ pc = "given"
    /\ choice = "" /\ FreshAction /\ session = NoSession
    /\ exitCode = -1 /\ raisedTop = "none" /\ cause = ""
    /\ raw \in Texts
    /\ once = NoText /\ twice = NoText /\ qonce = NoText /\ qtwice = NoText
    /\ NoCookies

FormatOnce ==
    /\ script = "pure" /\ pc = "given"
    /\ once' = format_url(raw) /\ qonce' = quick_format(raw)
    /\ pc' = "formatted"
    /\ UNCHANGED <<script, actionVars, session, exitVars, raw, twice, qtwice,
                   handed, cookies, display>>

FormatTwice ==
    /\ script = "pure" /\ pc = "formatted"
    /\ twice' = format_url(once) /\ qtwice' = quick_format(qonce)
    /\ pc' = "reformatted"
    /\ UNCHANGED <<script, actionVars, session, exitVars, raw, once, qonce,
                   handed, cookies, display>>

NextPure == FormatOnce \/ FormatTwice

SpecPure == InitPure /\ [][NextPure]_vars

\* ------------------------------------- display_cookies (lines 122-159)
MaxCookies == 7

\* cookie names, as the server may send them
NamePool ==
    << <<"c", "f", "_", "a">>, <<"s", "1">>, <<"_", "_", "c", "f", "b">>,
       <<"c", "f">>, <<"_", "c", "f">>, <<"c", "f", "_">>, <<"C", "F", "_", "x">>,
       <<"x", "c", "f", "_">>, <<"_", "_", "c", "f">>, <<"s", "2">>, <<"s", "3">> >>

ValueLens == <<0, 1, 40, 41, 44>>

ValueOf(n) == [k \in 1..n |-> IF k % 3 = 1 THEN "a" ELSE IF k % 3 = 2 THEN "b" ELSE "c"]

Reverse(q) == [k \in 1..Len(q) |-> q[Len(q) + 1 - k]]

\* the names of the set S in the order of pool
RECURSIVE NamesIn(_, _)
NamesIn(pool, S) ==
    IF pool = <<>> THEN <<>>
    ELSE (IF Head(pool) \in S THEN <<Head(pool)>> ELSE <<>>) \o NamesIn(Tail(pool), S)

\* a mapping in insertion order: one [name, value] per name
CookieJar(names, shift) ==
    [k \in 1..Len(names) |->
        [name |-> names[k],
         value |-> ValueOf(ValueLens[((k + shift) % Len(ValueLens)) + 1])]]

CookieJars ==
    {CookieJar(order, shift) :
        order \in UNION {{NamesIn(NamePool, S), NamesIn(Reverse(NamePool), S)} :
                            S \in {T \in SUBSET {NamePool[k] : k \in 1..Len(NamePool)} :
                                      Cardinality(T) <= MaxCookies}},
        shift \in 0..(Len(ValueLens) - 1)}

CF_PREFIXES == {<<"c", "f", "_">>, <<"_", "_", "c", "f">>}
PREVIEW_LEN == 40
OTHER_SHOWN == 5
ELLIPSIS == <<".", ".", ".">>

\* a preview cut one character early
value_preview_short(value) ==
    IF Len(value) > PREVIEW_LEN - 1
    THEN SubSeq(value, 1, PREVIEW_LEN - 1) \o ELLIPSIS ELSE value

\* lines 146 and 153: value[:40] + "..." if len(value) > 40 else value
value_preview(value) ==
    IF Len(value) > PREVIEW_LEN
    THEN SubSeq(value, 1, PREVIEW_LEN) \o ELLIPSIS ELSE value

\* lines 133-140: the loop over cookies.items(), from item k on, filling
\* the two groups
RECURSIVE GroupCookies(_, _, _)
GroupCookies(items, k, groups) ==
    IF k > Len(items) THEN groups
    ELSE IF StartsWithAny(items[k].name, CF_PREFIXES)
         THEN GroupCookies(items, k + 1,
                  [groups EXCEPT !.cf_cookies = Append(@, items[k])])
         ELSE GroupCookies(items, k + 1,
                  [groups EXCEPT !.other_cookies = Append(@, items[k])])

\* the lines printed
CookieLine(group, item) ==
    [kind |-> "item", group |-> group, name |-> item.name,
     text |-> value_preview(item.value), n |-> 0]
HeaderLine(group, n) ==
    [kind |-> "header", group |-> group, name |-> NoText, text |-> NoText, n |-> n]
MoreLine(n) ==
    [kind |-> "more", group |-> "other", name |-> NoText, text |-> NoText, n |-> n]

\* list(other_cookies.items())[:5]
FirstOf(q, n) == SubSeq(q, 1, IF Len(q) < n THEN Len(q) ELSE n)

\* lines 143-157: the two listings
display_cookies(items) ==
    LET groups == GroupCookies(items, 1, NoDisplay)
        cf == groups.cf_cookies
        other == groups.other_cookies
        cf_out == IF cf # <<>>
                  THEN <<HeaderLine("cf", 0)>>
                       \o [k \in 1..Len(cf) |-> CookieLine("cf", cf[k])]
                  ELSE <<>>
        listed == FirstOf(other, OTHER_SHOWN)
        other_out == IF other # <<>>
                     THEN <<HeaderLine("other", Len(other))>>
                          \o [k \in 1..Len(listed) |-> CookieLine("other", listed[k])]
                          \o (IF Len(other) > OTHER_SHOWN
                              THEN <<MoreLine(Len(other) - OTHER_SHOWN)>> ELSE <<>>)
                     ELSE <<>>
    IN  [groups EXCEPT !.out = cf_out \o other_out]

InitCookies ==
    /\ script = "pure" /\ pc = "handed"
    /\ choice = "" /\ FreshAction /\ session = NoSession
    /\ exitCode = -1 /\ raisedTop = "none" /\ cause = ""
    /\ raw = NoText /\ once = NoText /\ twice = NoText
    /\ qonce = NoText /\ qtwice = NoText
    /\ handed \in CookieJars /\ cookies = handed /\ display = NoDisplay

\* one call of display_cookies; it reads cookies and writes nothing to it
DisplayCookies ==
    /\ script = "pure" /\ pc = "handed"
    /\ display' = display_cookies(cookies)
    /\ pc' = "displayed"
    /\ UNCHANGED <<script, actionVars, session, exitVars, raw, once, twice,
                   qonce, qtwice, handed, cookies>>

NextCookies == DisplayCookies

SpecCookies == InitCookies /\ [][NextCookies]_vars

\* ------------------------------------------------------- the three scripts
Next ==
    \/ CliProbe \/ CliMenu \/ CliPause
    \/ CliSingleUrl \/ CliSingleProxy \/ CliSingleRefresh \/ CliSingleView
    \/ CliSingleSave
    \/ CliViewUrl \/ CliViewGet
    \/ CliBatchCollect \/ CliBatchProxy \/ CliBatchStart \/ CliBatchReturn
    \/ CliBatchSleep \/ CliBatchSummary \/ CliBatchSave
    \/ QuickUrl \/ QuickProxy \/ QuickCall \/ QuickSave \/ QuickCont
    \/ DemoChoice \/ DemoSingle \/ DemoMultiCall \/ DemoMultiSleep
    \/ DemoStats \/ DemoCacheRefresh \/ DemoCacheGet \/ DemoGap \/ DemoDone
    \/ PromptRaises \/ SleepInterrupted

Spec == Init /\ [][Next]_vars

\* ======================================================== properties
\* what the properties read off the state
HasHost(u) ==
    LET parts == urlparse(u)
    IN  ~parts.raised /\ parts.scheme # <<>> /\ parts.netloc # <<>>

Requests == {k \in 1..Len(log) : log[k].ev \in {"post", "get"}}

\* the latest request of the current action went to /cache/refresh
RefreshWasLast ==
    /\ Requests # {}
    /\ log[CHOOSE k \in Requests : \A j \in Requests : j <= k].ev = "post"
    /\ pc # "batch_wait"

\* batch_refresh has run its loop to the end
BatchDone ==
    /\ script = "cli" /\ choice = "3" /\ urls # <<>>
    /\ pc \in {"batch_summary", "batch_save_q", "pause_enter", "menu"}

RECURSIVE BatchPlan(_, _, _)
BatchPlan(us, p, k) ==
    IF k > Len(us) THEN <<>>
    ELSE <<Post(us[k], p), Return(us[k])>>
         \o (IF k < Len(us) THEN <<Sleep(2)>> ELSE <<>>)
         \o BatchPlan(us, p, k + 1)

IsPrefix(a, b) == Len(a) <= Len(b) /\ SubSeq(b, 1, Len(a)) = a

CountEv(ev) == Cardinality({k \in 1..Len(log) : log[k].ev = ev})

\* C1: a batch over N >= 1 valid URLs issues N refresh calls, one at a time
\* in input order, each started after the previous one returned, with a
\* 2-second pause after every item but the last: N - 1 pauses, none before
\* the first call and none after the last.
C1_BatchSequential ==
    script = "cli" /\ choice = "3" =>
        /\ IsPrefix(log, BatchPlan(urls, proxy, 1))
        /\ BatchDone =>
             /\ log = BatchPlan(urls, proxy, 1)
             /\ CountEv("post") = Len(urls)
             /\ CountEv("sleep") = Len(urls) - 1
             /\ log[1].ev = "post" /\ log[Len(log)].ev = "return"

C1_Witness ==
    /\ BatchDone /\ pc = "batch_save_q"
    /\ Len(urls) = 3 /\ CountEv("post") = 3 /\ CountEv("sleep") = 2

\* C2: in the menu-driven tool a URL that after normalization lacks a scheme
\* or a network location is rejected, and no request to /cache/refresh or
\* /cookies is issued for it.
C2_CliRejectsNoHost ==
    script = "cli" =>
        /\ \A k \in Requests : HasHost(log[k].url)
        /\ \A k \in 1..Len(urls) : HasHost(urls[k])
        /\ url # NoText /\ ~HasHost(url) =>
             pc \in {"pause_enter", "menu", "exit"} /\ fault = "validation" /\ log = <<>>
        /\ pc \in {"single_proxy", "single_refresh", "view_get"} => HasHost(url)

C2_Witness ==
    /\ BatchDone /\ pc = "batch_save_q"
    /\ \E k \in 1..Len(entered) : ~HasHost(format_url(entered[k]))
    /\ Requests # {}

\* C3: in the simplified script an input whose normalized form has no
\* network location is rejected and no POST to /cache/refresh is issued for
\* it.
C3_QuickRejectsNoHost ==
    script = "quick" =>
        \A k \in Requests : urlparse(log[k].url).netloc # <<>>

\* C4: normalization prepends https:// exactly once to an input that starts
\* with neither http:// nor https://, returns every other input unchanged,
\* and normalizing a second time changes nothing; so for format_url and for
\* the inline normalization of quick_refresh.
C4_Prepended(text, out) ==
    /\ Len(out) = Len(text) + 8
    /\ SubSeq(out, 1, 8) = <<"h", "t", "t", "p", "s", ":", "/", "/">>
    /\ SubSeq(out, 9, Len(out)) = text

C4_HasScheme(text) ==
    \/ Len(text) >= 7 /\ SubSeq(text, 1, 7) = <<"h", "t", "t", "p", ":", "/", "/">>
    \/ Len(text) >= 8 /\ SubSeq(text, 1, 8) = <<"h", "t", "t", "p", "s", ":", "/", "/">>

C4_NormalizeOnce ==
    script = "pure" =>
        /\ pc \in {"formatted", "reformatted"} =>
             IF C4_HasScheme(raw) THEN once = raw /\ qonce = raw
             ELSE C4_Prepended(raw, once) /\ C4_Prepended(raw, qonce)
        /\ pc = "reformatted" => twice = once /\ qtwice = qonce

C4_Witness ==
    /\ script = "pure" /\ pc = "reformatted"
    /\ raw = UPPER_HTTP \o <<"a">>
    /\ twice = HTTPS \o raw

\* C5: the displayed summary and the persisted batch document agree with the
\* records: success is the number of records with status success, failed
\* the number with status failed, success + failed = total = the number of
\* records, and every record has one of the two statuses.
C5_Tally(counts) ==
    /\ counts.success = Cardinality({k \in 1..Len(results) : results[k].status = "success"})
    /\ counts.failed = Cardinality({k \in 1..Len(results) : results[k].status = "failed"})
    /\ counts.total = Len(results)
    /\ counts.success + counts.failed = counts.total

C5_BatchCounts ==
    script = "cli" =>
        /\ \A k \in 1..Len(results) : results[k].status \in {"success", "failed"}
        /\ summary # NoSummary => C5_Tally(summary)
        /\ pc = "batch_save_q" => summary # NoSummary
        /\ saved.written =>
             /\ C5_Tally(saved) /\ saved.results = results
             /\ saved.success = summary.success /\ saved.failed = summary.failed
             /\ saved.total = summary.total

C5_Witness ==
    /\ script = "cli" /\ saved.written
    /\ Len(results) = 2 /\ saved.success = 1 /\ saved.failed = 1
    /\ summary.success = 1 /\ summary.failed = 1

\* C6: the final batch holds exactly one record per valid URL entered, in
\* the order entered; a URL that fails validation is dropped, is never
\* passed to the refresh client and has no record; a valid URL has one
\* record whether its refresh succeeded or failed.
RECURSIVE C6_ValidOf(_)
C6_ValidOf(lines) ==
    IF lines = <<>> THEN <<>>
    ELSE LET u == format_url(Head(lines))
         IN  (IF HasHost(u) THEN <<u>> ELSE <<>>) \o C6_ValidOf(Tail(lines))

C6_PostedUrls == [k \in 1..Len(results) |-> results[k].url]

C6_OneRecordPerValidUrl ==
    script = "cli" /\ choice = "3" =>
        /\ urls = C6_ValidOf(entered)
        /\ IsPrefix(C6_PostedUrls, C6_ValidOf(entered))
        /\ \A k \in Requests : \E j \in 1..Len(urls) : log[k].url = urls[j]
        /\ BatchDone =>
             /\ C6_PostedUrls = C6_ValidOf(entered)
             /\ CountEv("post") = Len(C6_ValidOf(entered))

C6_Witness ==
    /\ BatchDone /\ pc = "batch_save_q"
    /\ Len(entered) = 3 /\ Len(results) = 2
    /\ results[1].status = "failed" /\ results[2].status = "success"

\* C7: when /cache/refresh answers with a status other than 200 and a JSON
\* body carrying 'detail', the refresh client of each script prints a line
\* holding that detail as it is, returns its failure value (None; False in
\* the simplified script) and lets no exception out.
C7_DetailAnswered ==
    /\ RefreshWasLast
    /\ resp.exc = "none" /\ resp.status # 200 /\ resp.json /\ resp.detail # <<>>

C7_DetailReported ==
    C7_DetailAnswered =>
        /\ Prints(last.out, resp.detail)
        /\ last.raised = "none"
        /\ last.ret = IF script = "quick" THEN "False" ELSE "None"

C7_Witness ==
    /\ script = "demo" /\ C7_DetailAnswered
    /\ resp.detail = <<"rate limited">>
    /\ Prints(last.out, <<"rate limited">>)

\* C8 as amended: in the menu-driven tool no input-validation error,
\* network error, remote-reported error or file-write error ends the
\* program. The step that hits one stays in the tool; an empty or invalid
\* URL, a failed refresh or lookup and a failed write end a single-URL or
\* lookup action at the "press Enter" prompt, an ill-formed proxy is dropped
\* and the action goes on without it, the batch skips an invalid URL and
\* records a failed refresh and goes on with the next URL; every action ends
\* at the "press Enter" prompt and the menu follows. The menu loop is left
\* only by choice '0', by Ctrl-C, or by an exception no handler takes.
C8_HandledErrors ==
    {"TimeoutError", "ClientConnectorError", "ContentTypeError", "OSError",
     "ValueError"}

\* this step hit one of the four kinds of error
C8_Hit ==
    \/ fault' # "none" /\ fault' # fault
    \/ /\ pc = "batch_collect" /\ entered' # entered
       /\ ~HasHost(format_url(entered'[Len(entered')]))
    \/ /\ pc \in {"single_refresh", "view_get", "batch_wait"} /\ pc' # pc
       /\ FaultOf(resp') # "none"

\* the program goes on, and the loop is left in the three ways only
C8_Survives ==
    /\ pc' = "exit" /\ pc # "exit" =>
         \/ pc = "menu" /\ cause' = "quit" /\ raisedTop' = "none"
         \/ /\ cause' = "raised"
            /\ raisedTop' \notin C8_HandledErrors \cup {"none"}
    /\ C8_Hit => pc' # "exit"
    /\ pc = "pause_enter" /\ pc' # pc => pc' \in {"menu", "exit"}
    /\ fault # "none" /\ pc \notin {"menu", "pause_enter", "exit"} => pc' # "menu"

C8_Step ==
    script = "cli" /\ pc # "probe" =>
        /\ C8_Survives
        /\ C8_Hit =>
             CASE pc \in {"single_proxy"} -> pc' = "single_refresh"
               [] pc \in {"batch_proxy"} -> pc' = "batch_call"
               [] pc = "batch_collect" -> pc' \in {"batch_collect", "pause_enter"}
               [] pc = "batch_wait" -> pc' \in {"batch_sleep", "batch_summary"}
               [] pc = "single_view_q" -> pc' = "single_save_q"
               [] OTHER -> pc' = "pause_enter"

C9_DistinctMessages ==
    RefreshWasLast /\ resp.exc \in {"ClientConnectorError", "TimeoutError"} =>
        /\ Prints(last.out, <<"cannot connect to server">>)
             <=> resp.exc = "ClientConnectorError"
        /\ Prints(last.out, <<"timeout">>) <=> resp.exc = "TimeoutError"
        /\ last.ret = IF script = "quick" THEN "False" ELSE "None"

\* C10: every script ends with exit code 0 on its explicit quit and on
\* Ctrl-C, and with exit code 1 when an error no action-level handler took
\* reaches the top level.
C10_ExitCodes ==
    pc = "exit" =>
        /\ cause = "quit" => exitCode = 0
        /\ raisedTop \in Interrupts \/ cause = "cancelled" => exitCode = 0
        /\ IsException(raisedTop) \/ cause = "error" => exitCode = 1

\* C11: demo_multiple_refreshes refreshes its N URLs one at a time in list
\* order and pauses 2 seconds after every item but the last: N calls and
\* N - 1 pauses, none after the final item.
C11_DemoPauses ==
    script = "demo" /\ choice = "2" =>
        /\ IsPrefix(log, BatchPlan(DEMO_URLS, NoText, 1))
        /\ pc = "e_done" =>
             /\ CountEv("post") = Len(DEMO_URLS)
             /\ CountEv("sleep") = Len(DEMO_URLS) - 1

\* this step of the menu-driven tool issues a refresh or a cookie lookup
C12_Issues ==
    /\ script = "cli" /\ Len(log') > Len(log)
    /\ \E k \in (Len(log) + 1)..Len(log') : log'[k].ev \in {"post", "get"}

C12_Lifetime ==
    script = "cli" =>
        /\ session.made <= 1
        /\ session.state = "none" <=> session.made = 0
        /\ session.state = "closed" => pc = "exit"
        /\ pc = "exit" => session.state # "open"
        /\ pc = "probe" \/ (pc = "exit" /\ cause = "probe") => session = NoSession

C12_Step ==
    script = "cli" =>
        /\ session.state = "none" /\ session'.state # "none" => C12_Issues
        /\ C12_Issues => session.state # "closed" /\ session'.made = 1
        /\ session.state = "open" =>
             IF pc' = "exit" THEN session' = [session EXCEPT !.state = "closed"]
             ELSE session' = session
        /\ session.state = "closed" => session' = session

\* C12: the menu-driven tool makes its HTTP session at most once, on the
\* first refresh or cookie lookup; every later call uses that session; on
\* every way out (choice '0', failed probe, exception, interrupt) a session
\* that was made is closed; and no request is issued on a closed session.
C12_SessionOnce == [][C12_Lifetime /\ C12_Lifetime' /\ C12_Step]_vars

C12_Witness ==
    /\ script = "cli" /\ pc = "exit" /\ raisedTop = "KeyboardInterrupt"
    /\ Len(log) = 4 /\ log[1].ev = "post" /\ log[3].ev = "get"
    /\ session = [state |-> "closed", made |-> 1]

\* the name starts with 'cf_' or with '__cf'
C13_CfName(name) ==
    \/ Len(name) >= 3 /\ name[1] = "c" /\ name[2] = "f" /\ name[3] = "_"
    \/ Len(name) >= 4 /\ name[1] = "_" /\ name[2] = "_" /\ name[3] = "c"
       /\ name[4] = "f"

C13_Times(q, item) == Cardinality({k \in 1..Len(q) : q[k] = item})

\* the item lines printed for a group, in the order printed
C13_Listed(group) ==
    SelectSeq(display.out, LAMBDA l : l.kind = "item" /\ l.group = group)

C13_More == SelectSeq(display.out, LAMBDA l : l.kind = "more")

\* the line shows the cookie: its name, and its value cut to 40 characters
\* and followed by an ellipsis if it is longer than 40
C13_Shows(line, item) ==
    /\ line.name = item.name
    /\ IF Len(item.value) > 40
       THEN /\ Len(line.text) = 43
            /\ \A k \in 1..40 : line.text[k] = item.value[k]
            /\ \A k \in 41..43 : line.text[k] = "."
       ELSE line.text = item.value

\* C13: display_cookies puts every cookie of the set in exactly one group,
\* the Cloudflare group if and only if its name starts with 'cf_' or
\* '__cf'; it lists every Cloudflare cookie and at most 5 cookies of the
\* other group, the first ones; when the other group has more than 5 it
\* reports size - 5 as the remainder, and no remainder otherwise; a value
\* longer than 40 characters is shown as its first 40 characters and an
\* ellipsis; the mapping handed in is left as it was.
C13_Grouping ==
    script = "pure" /\ pc = "displayed" =>
        LET cf == display.cf_cookies
            other == display.other_cookies
        IN  /\ \A k \in 1..Len(handed) :
                 /\ C13_Times(cf, handed[k]) + C13_Times(other, handed[k]) = 1
                 /\ C13_Times(cf, handed[k]) = 1 <=> C13_CfName(handed[k].name)
            /\ Len(cf) + Len(other) = Len(handed)
            /\ Len(C13_Listed("cf")) = Len(cf)
            /\ \A k \in 1..Len(cf) : C13_Shows(C13_Listed("cf")[k], cf[k])
            /\ Len(C13_Listed("other")) = (IF Len(other) > 5 THEN 5 ELSE Len(other))
            /\ \A k \in 1..Len(C13_Listed("other")) :
                 C13_Shows(C13_Listed("other")[k], other[k])
            /\ IF Len(other) > 5
               THEN Len(C13_More) = 1 /\ C13_More[1].n = Len(other) - 5
               ELSE C13_More = <<>>
            /\ cookies = handed

C13_Witness ==
    /\ script = "pure" /\ pc = "displayed"
    /\ Len(display.cf_cookies) = 1 /\ Len(display.other_cookies) = 6
    /\ Len(C13_Listed("other")) = 5
    /\ C13_More # <<>> /\ C13_More[1].n = 1
    /\ \E k \in 1..Len(display.out) : Len(display.out[k].text) = 43
    /\ \E k \in 1..Len(handed) : handed[k].name = <<"c", "f">>

C14_Schemes ==
    {<<"h", "t", "t", "p">>, <<"h", "t", "t", "p", "s">>,
     <<"s", "o", "c", "k", "s", "4">>, <<"s", "o", "c", "k", "s", "5">>}

\* the text starts with one of the four schemes followed by '://'
C14_Allowed(p) ==
    \E sch \in C14_Schemes :
        /\ Len(p) >= Len(sch) + 3
        /\ SubSeq(p, 1, Len(sch)) = sch
        /\ SubSeq(p, Len(sch) + 1, Len(sch) + 3) = <<":", "/", "/">>

\* C14: in the menu-driven tool and the simplified script a refresh request
\* carries a proxy parameter only if the user typed a non-empty proxy that
\* starts with http://, https://, socks4:// or socks5://, and then it is the
\* proxy typed; an empty or otherwise prefixed proxy is never sent: the
\* menu-driven tool drops it and goes on without a proxy, the simplified
\* script abandons the pass without any request.
C14_ProxyOnlyIfValid ==
    script \in {"cli", "quick"} =>
        /\ \A k \in Requests :
             /\ log[k].proxy # NoText => C14_Allowed(log[k].proxy)
             /\ log[k].ev = "post" => log[k].proxy = proxy
        /\ script = "cli" => proxy = NoText \/ C14_Allowed(proxy)
        /\ script = "cli" /\ choice = "1" /\ fault = "validation"
              /\ pc \in {"single_refresh", "single_view_q"} => proxy = NoText
        /\ script = "quick" /\ proxy # NoText /\ ~C14_Allowed(proxy) =>
             pc \in {"q_url", "exit"} /\ log = <<>> /\ fault = "validation"

C14_Witness ==
    /\ script = "cli" /\ choice = "1" /\ pc = "single_view_q"
    /\ fault = "validation"
    /\ Len(log) = 2 /\ log[1].ev = "post" /\ log[1].proxy = NoText

====
